---------------------------- MODULE Spec2Model ----------------------------
(***************************************************************************)
(* Model of src/index.py: procesar_pdf_con_vision_y_gemini.                *)
(*                                                                         *)
(* Strings are sequences of string tokens: a literal of the source is one  *)
(* token, a formatted value ({e}, {pdf_path}, an OCR text) is the sequence *)
(* of its own tokens, and an f-string is the concatenation of both.        *)
(* Python values that the code inspects by type (the parsed JSON body) are *)
(* tagged records [t |-> "null" | "str" | "list" | "obj", v |-> ...].       *)
(* Exceptions are records [cls, msg]; an except clause matches by the      *)
(* class hierarchy (IsInstance).                                           *)
(***************************************************************************)
EXTENDS Integers, Sequences, FiniteSets, TLC

\* Largest page count of a document the model explores.
MaxPages == 2

(***************************************************************************)
(* Python values                                                           *)
(***************************************************************************)

JNull == [t |-> "null"]

JStr(s) == [t |-> "str", v |-> s]

JList(l) == [t |-> "list", v |-> l]

JObj(f) == [t |-> "obj", v |-> f]

\* {} and {k: val}
EmptyObj == JObj(<<>>)

Obj1(k, val) == JObj([x \in {k} |-> val])

\* bool(x) as the `if candidates:` / `if parts:` tests evaluate it
Truthy(j) ==
    CASE j.t = "null" -> FALSE
      [] j.t = "str"  -> Len(j.v) > 0
      [] j.t = "list" -> Len(j.v) > 0
      [] j.t = "obj"  -> DOMAIN j.v # {}

\* an evaluation either yields a value or raises
Ok(val) == [ok |-> TRUE, val |-> val, exc |-> "none"]

Raise(cls) == [ok |-> FALSE, val |-> JNull, exc |-> cls]

\* x.get(key, default): only a dict has .get
Get(j, key, default) ==
    IF j.t # "obj" THEN Raise("AttributeError")
    ELSE IF key \in DOMAIN j.v THEN Ok(j.v[key]) ELSE Ok(default)

\* x[0]
GetItem0(j) ==
    CASE j.t = "null" -> Raise("TypeError")
      [] j.t = "str"  -> IF Len(j.v) > 0 THEN Ok(JStr(<<j.v[1]>>)) ELSE Raise("IndexError")
      [] j.t = "list" -> IF Len(j.v) > 0 THEN Ok(j.v[1]) ELSE Raise("IndexError")
      [] j.t = "obj"  -> Raise("KeyError")

\* x['key']
GetItemKey(j, key) ==
    IF j.t # "obj" THEN Raise("TypeError")
    ELSE IF key \in DOMAIN j.v THEN Ok(j.v[key]) ELSE Raise("KeyError")

RECURSIVE Render(_, _), RenderSeq(_, _, _), RenderMembers(_, _, _)

\* py = TRUE: str(x) of a parsed value as an f-string formats it (repr of the
\* dict); py = FALSE: the JSON text of the value as the server sends it.
Render(j, py) ==
    CASE j.t = "null" -> IF py THEN <<"None">> ELSE <<"null">>
      [] j.t = "str"  -> IF py THEN <<"'">> \o j.v \o <<"'">>
                               ELSE <<"\"">> \o j.v \o <<"\"">>
      [] j.t = "list" -> <<"[">> \o RenderSeq(j.v, 1, py) \o <<"]">>
      [] j.t = "obj"  -> <<"{">> \o RenderMembers(j.v, DOMAIN j.v, py) \o <<"}">>

RenderSeq(l, i, py) ==
    IF i > Len(l) THEN <<>>
    ELSE Render(l[i], py) \o (IF i < Len(l) THEN <<", ">> ELSE <<>>)
         \o RenderSeq(l, i + 1, py)

RenderMembers(f, keys, py) ==
    IF keys = {} THEN <<>>
    ELSE LET k == CHOOSE x \in keys : TRUE
         IN  Render(JStr(<<k>>), py) \o <<": ">> \o Render(f[k], py)
             \o (IF keys \ {k} # {} THEN <<", ">> ELSE <<>>)
             \o RenderMembers(f, keys \ {k}, py)

\* s contains sub as a contiguous piece
Contains(s, sub) ==
    \E i \in 0..(Len(s) - Len(sub)) : SubSeq(s, i + 1, i + Len(sub)) = sub


(***************************************************************************)
(* Exceptions                                                              *)
(***************************************************************************)

NoExc == [cls |-> "none", msg |-> <<>>]

\* the classes an exception of class cls is an instance of, besides cls
Bases(cls) ==
    CASE cls = "fitz.FileNotFoundError" -> {"RuntimeError", "Exception"}
      [] cls = "ConnectionError"  -> {"RequestException", "OSError", "Exception"}
      [] cls = "HTTPError"        -> {"RequestException", "OSError", "Exception"}
      [] cls = "requests.JSONDecodeError" ->
             {"InvalidJSONError", "RequestException", "OSError",
              "json.JSONDecodeError", "ValueError", "Exception"}
      [] cls = "UnboundLocalError" -> {"NameError", "Exception"}
      [] cls = "KeyError"   -> {"LookupError", "Exception"}
      [] cls = "IndexError" -> {"LookupError", "Exception"}
      [] OTHER -> {"Exception"}

IsInstance(e, cls) == e.cls = cls \/ cls \in Bases(e.cls)

\* str(e) of the exceptions the interpreter itself raises in this function
MsgOf(cls) ==
    CASE cls = "UnboundLocalError" ->
             <<"cannot access local variable 'response_gemini' where it is not associated with a value">>
      [] cls = "AttributeError" -> <<"object has no attribute 'get'">>
      [] cls = "KeyError"   -> <<"'content'">>
      [] cls = "IndexError" -> <<"index out of range">>
      [] cls = "TypeError"  -> <<"indices must be integers">>
      [] OTHER -> <<cls>>

Exc(cls) == [cls |-> cls, msg |-> MsgOf(cls)]

(***************************************************************************)
(* Inputs: the path, the document, the OCR service, the LLM endpoint       *)
(***************************************************************************)

pdf_path == <<"orestes.pdf">>

\* prompt_personalizado, the prompt the script passes
prompt_gemini ==
    <<"Extrae el activo o los activos totales con su fecha el texto esta en portugues genera un json con esa informacion:\n\n">>

GEMINI_API_URL ==
    <<"https://generativelanguage.googleapis.com/v1beta/models/gemini-1.5-flash:generateContent">>

\* what fitz.open can raise
OpenErrors ==
    { [cls |-> "fitz.FileNotFoundError", msg |-> <<"no such file: 'orestes.pdf'">>],
      [cls |-> "RuntimeError", msg |-> <<"cannot open broken document">>] }

\* a word that only page k's image can produce
PageWord(k) == <<"uno", "dos", "tres", "cuatro">>[k]

\* the texts the OCR service may recognise on page k
PageTexts(k) == { <<>>, <<PageWord(k)>>, <<PageWord(k), "\n", "total">> }

\* What happens to page k: rasterising or the OCR call raises, or the OCR
\* service answers with (error.message set?, full_text_annotation present?,
\* full_text_annotation.text).
PageOutcomes(k) ==
    { [raises |-> TRUE, err |-> FALSE, annot |-> FALSE, text |-> <<>>] }
    \cup { [raises |-> FALSE, err |-> e, annot |-> FALSE, text |-> <<>>] : e \in BOOLEAN }
    \cup { [raises |-> FALSE, err |-> e, annot |-> TRUE, text |-> t] :
              e \in BOOLEAN, t \in PageTexts(k) }

\* the documents: one outcome per page, for 0..MaxPages pages
Documents ==
    UNION { { d \in [1..n -> UNION { PageOutcomes(k) : k \in 1..n }] :
                \A k \in 1..n : d[k] \in PageOutcomes(k) } : n \in 0..MaxPages }

\* the answers a generated text can be
AnswerTexts == << <<"x">>, <<" ", "x", "\n">>, <<>> >>

TextPart(t) == Obj1("text", JStr(t))

WithCandidates(cs) == Obj1("candidates", cs)

WithCandidate(cand) == WithCandidates(JList(<<cand>>))

WithContent(c) == WithCandidate(Obj1("content", c))

WithParts(p) == WithContent(Obj1("parts", p))

\* the JSON documents the endpoint may send as a body
JsonBodies ==
    << JNull,
       JList(<<>>),
       EmptyObj,
       Obj1("error", Obj1("message", JStr(<<"API key not valid">>))),
       WithCandidates(JNull),
       WithCandidates(JList(<<>>)),
       WithCandidates(JStr(<<"x">>)),
       WithCandidates(Obj1("a", JNull)),
       WithCandidate(EmptyObj),
       WithCandidate(Obj1("finishReason", JStr(<<"SAFETY">>))),
       WithCandidate(JStr(<<"x">>)),
       WithContent(JNull),
       WithContent(EmptyObj),
       WithContent(Obj1("role", JStr(<<"model">>))),
       WithParts(JNull),
       WithParts(JList(<<>>)),
       WithParts(JList(<<EmptyObj>>)),
       WithParts(JList(<<JStr(<<"x">>)>>)),
       WithParts(JList(<<TextPart(AnswerTexts[1])>>)),
       WithParts(JList(<<TextPart(AnswerTexts[2])>>)),
       WithParts(JList(<<TextPart(AnswerTexts[3])>>)),
       WithParts(JList(<<TextPart(AnswerTexts[1]), TextPart(AnswerTexts[2])>>)),
       WithCandidates(JList(<<
           Obj1("content", Obj1("parts", JList(<<TextPart(AnswerTexts[2])>>))),
           Obj1("content", Obj1("parts", JList(<<TextPart(AnswerTexts[1])>>))) >>)) >>

\* the bodies as the bytes on the wire: the JSON ones, and two that are no JSON
RawBodies ==
    { Render(JsonBodies[i], FALSE) : i \in 1..Len(JsonBodies) }
    \cup { <<>>, <<"<html>", "Bad Gateway", "</html>">> }

HttpStatuses == {200, 304, 404, 503}

\* what requests.post can raise before any response exists
TransportErrors ==
    { [cls |-> "ConnectionError", msg |-> <<"Max retries exceeded with url">>] }

\* Response.json(): the value whose JSON text the body is, or JSONDecodeError
IsJson(raw) == \E i \in 1..Len(JsonBodies) : Render(JsonBodies[i], FALSE) = raw

Loads(raw) ==
    JsonBodies[CHOOSE i \in 1..Len(JsonBodies) : Render(JsonBodies[i], FALSE) = raw]

JsonError == [cls |-> "requests.JSONDecodeError",
              msg |-> <<"Expecting value: line 1 column 1 (char 0)">>]

\* Response.raise_for_status(): raises for 4xx and 5xx only
IsErrorStatus(status) == 400 <= status /\ status < 600

HttpError(status) ==
    [cls |-> "HTTPError",
     msg |-> <<ToString(status),
               IF status < 500 THEN " Client Error" ELSE " Server Error",
               " for url: ">> \o GEMINI_API_URL]

(***************************************************************************)
(* The result strings                                                      *)
(***************************************************************************)

ErrNoEncontrado(path) ==
    <<"Error: No se encontró el archivo PDF en la ruta: ">> \o path

ErrAbrir(e) == <<"Error al abrir el PDF: ">> \o e.msg

Advertencia == <<"Advertencia: No se pudo extraer texto de ninguna página del PDF.">>

ErrSolicitud(e) == <<"Error en la solicitud a la API de Gemini: ">> \o e.msg

\* Faulty variant of ErrSolicitudDetalles: the parsed body left out.
ErrSolicitudDetalles_sin_detalles(e, error_data) ==
    ErrSolicitud(e) \o <<"\nDetalles del error: ">>

ErrSolicitudDetalles(e, error_data) ==
    ErrSolicitud(e) \o <<"\nDetalles del error: ">> \o Render(error_data, TRUE)

ErrSolicitudNoJson(e, resp) ==
    ErrSolicitud(e) \o <<"\nCódigo de estado: ", ToString(resp.status_code),
                         "\nRespuesta (no JSON): ">> \o resp.text

SinTexto == <<"Respuesta de Gemini sin texto.">>

SinParts == <<"Error: Respuesta de Gemini sin 'parts'.">>

SinCandidates == <<"Error: Respuesta de Gemini sin 'candidates'.">>

RespuestaCompleta(j) ==
    <<"Respuesta completa de Gemini (para depuración):\n">> \o Render(j, TRUE)

ErrGeneral(e) == <<"Error general al procesar el PDF: ">> \o e.msg

(***************************************************************************)
(* Pure steps of the function                                              *)
(***************************************************************************)

\* Faulty variant of Join: "\n".join(l).
RECURSIVE Join_un_salto(_)
Join_un_salto(l) ==
    IF Len(l) = 0 THEN <<>>
    ELSE IF Len(l) = 1 THEN l[1]
    ELSE l[1] \o <<"\n">> \o Join_un_salto(Tail(l))

\* "\n\n".join(l)
RECURSIVE Join(_)
Join(l) ==
    IF Len(l) = 0 THEN <<>>
    ELSE IF Len(l) = 1 THEN l[1]
    ELSE l[1] \o <<"\n\n">> \o Join(Tail(l))

\* Faulty variant of TrasPagina: line 57-59, the test of error.message, left out.
TrasPagina_ignora_error(textos, p) ==
    IF p.raises THEN textos
    ELSE LET text == IF p.annot THEN p.text ELSE <<>>
         IN  IF Len(text) > 0 THEN Append(textos, text) ELSE textos

\* One iteration of the page loop: textos_por_pagina after page outcome p.
\* None and "" are both falsy for `if text:`; the model writes both as <<>>.
TrasPagina(textos, p) ==
    IF p.raises THEN textos
    ELSE IF p.err THEN textos
    ELSE LET text == IF p.annot THEN p.text ELSE <<>>
         IN  IF Len(text) > 0 THEN Append(textos, text) ELSE textos

\* a block either returns a string or lets an exception out
Return(s) == [ret |-> TRUE, val |-> s, exc |-> "none"]

Throw(cls) == [ret |-> FALSE, val |-> <<>>, exc |-> cls]

\* Faulty variant of ProcesaParts: parts[0].get('text') or "Respuesta de Gemini
\* sin texto.", which replaces an empty text.
ProcesaParts_texto_o_defecto(parts) ==
    IF Truthy(parts)
    THEN LET p0 == GetItem0(parts)
         IN  IF ~p0.ok THEN Throw(p0.exc)
             ELSE LET t == Get(p0.val, "text", JStr(SinTexto))
                  IN  IF ~t.ok THEN Throw(t.exc)
                      ELSE IF Truthy(t.val) THEN Return(t.val.v) ELSE Return(SinTexto)
    ELSE Return(SinParts)

\* Faulty variant of ProcesaParts: parts[0] read without the `if parts:` test.
ProcesaParts_sin_comprobar(parts) ==
    LET p0 == GetItem0(parts)
    IN  IF ~p0.ok THEN Throw(p0.exc)
        ELSE LET t == Get(p0.val, "text", JStr(SinTexto))
             IN  IF ~t.ok THEN Throw(t.exc) ELSE Return(t.val.v)

\* lines 107-110.  The "text" values of JsonBodies are strings, so the value
\* returned is written as the string's tokens.
ProcesaParts(parts) ==
    IF Truthy(parts)
    THEN LET p0 == GetItem0(parts)
         IN  IF ~p0.ok THEN Throw(p0.exc)
             ELSE LET t == Get(p0.val, "text", JStr(SinTexto))
                  IN  IF ~t.ok THEN Throw(t.exc) ELSE Return(t.val.v)
    ELSE Return(SinParts)

\* lines 105-112
ProcesaCandidates(candidates) ==
    IF Truthy(candidates)
    THEN LET c0 == GetItem0(candidates)
         IN  IF ~c0.ok THEN Throw(c0.exc)
             ELSE LET content == GetItemKey(c0.val, "content")
                  IN  IF ~content.ok THEN Throw(content.exc)
                      ELSE LET parts == Get(content.val, "parts", JList(<<>>))
                           IN  IF ~parts.ok THEN Throw(parts.exc)
                               ELSE ProcesaParts(parts.val)
    ELSE Return(SinCandidates)

\* lines 103-115: the try block and its except (KeyError, IndexError, TypeError)
ProcesaRespuesta(json) ==
    LET candidates == Get(json, "candidates", JList(<<>>))
        r == IF ~candidates.ok THEN Throw(candidates.exc)
             ELSE ProcesaCandidates(candidates.val)
    IN  IF ~r.ret /\ r.exc \in {"KeyError", "IndexError", "TypeError"}
        THEN Return(RespuestaCompleta(json))
        ELSE r

(***************************************************************************)
(* State                                                                   *)
(***************************************************************************)

VARIABLES
    pc,                 \* the statement the call is at
    pages,              \* input: what each page of the file at pdf_path does
    doc,                \* the document handle: "none", "open" or "closed"
    page_num,           \* pages the loop has gone through
    textos_por_pagina,
    texto_completo,
    data,               \* the text of the request body: contents[0].parts[0].text
    response_gemini,    \* the local variable: unbound, or the Response
    response_json,
    e,                  \* the exception `except RequestException as e` binds
    exc,                \* the exception that left the inner handlers
    posts,              \* requests.post calls made
    exit,               \* line of the return statement taken
    result              \* the value returned

vars == <<pc, pages, doc, page_num, textos_por_pagina, texto_completo, data,
          response_gemini, response_json, e, exc, posts, exit, result>>

Unbound == [bound |-> FALSE, status_code |-> 0, text |-> <<>>]

Init ==
    /\ pc = "open"
    /\ pages \in Documents
    /\ doc = "none"
    /\ page_num = 0
    /\ textos_por_pagina = <<>>
    /\ texto_completo = <<>>
    /\ data = <<>>
    /\ response_gemini = Unbound
    /\ response_json = JNull
    /\ e = NoExc
    /\ exc = NoExc
    /\ posts = 0
    /\ exit = "none"
    /\ result = <<>>

\* `return s` at the given line
Retorna(s, line) ==
    /\ result' = s
    /\ exit' = line
    /\ pc' = "done"

\* the handler an exception raised in the try of lines 89-92 reaches
ManejadorSolicitud(x) ==
    IF IsInstance(x, "RequestException") THEN "except_request" ELSE "except_general"

(***************************************************************************)
(* Steps                                                                   *)
(***************************************************************************)

\* lines 33-40: fitz.open(pdf_path) and its two handlers
AbrePDF ==
    /\ pc = "open"
    /\ \/ /\ doc' = "open"
          /\ pc' = "pages"
          /\ UNCHANGED <<result, exit>>
       \/ /\ \E x \in OpenErrors :
                IF IsInstance(x, "fitz.FileNotFoundError")
                THEN Retorna(ErrNoEncontrado(pdf_path), "36")
                ELSE Retorna(ErrAbrir(x), "38")
          /\ UNCHANGED doc
    /\ UNCHANGED <<pages, page_num, textos_por_pagina, texto_completo, data,
                   response_gemini, response_json, e, exc, posts>>

\* lines 43-69: one iteration of the loop over range(doc.page_count)
ProcesaPagina ==
    /\ pc = "pages"
    /\ page_num < Len(pages)
    /\ textos_por_pagina' = TrasPagina(textos_por_pagina, pages[page_num + 1])
    /\ page_num' = page_num + 1
    /\ UNCHANGED <<pc, pages, doc, texto_completo, data, response_gemini,
                   response_json, e, exc, posts, exit, result>>

\* Faulty variant of CierraDoc: line 71 left out.
CierraDoc_olvida ==
    /\ pc = "pages"
    /\ page_num = Len(pages)
    /\ pc' = "join"
    /\ UNCHANGED <<pages, doc, page_num, textos_por_pagina, texto_completo, data,
                   response_gemini, response_json, e, exc, posts, exit, result>>

\* line 71: doc.close(), once the loop is exhausted
CierraDoc ==
    /\ pc = "pages"
    /\ page_num = Len(pages)
    /\ doc' = "closed"
    /\ pc' = "join"
    /\ UNCHANGED <<pages, page_num, textos_por_pagina, texto_completo, data,
                   response_gemini, response_json, e, exc, posts, exit, result>>

\* Faulty variant of AgregaTexto: lines 75-76, the early return, left out.
AgregaTexto_sin_comprobar ==
    /\ pc = "join"
    /\ texto_completo' = Join(textos_por_pagina)
    /\ data' = prompt_gemini \o texto_completo'
    /\ pc' = "post"
    /\ UNCHANGED <<pages, doc, page_num, textos_por_pagina, response_gemini,
                   response_json, e, exc, posts, exit, result>>

\* lines 73-87: join, and the early return when nothing was extracted
AgregaTexto ==
    /\ pc = "join"
    /\ texto_completo' = Join(textos_por_pagina)
    /\ IF Len(texto_completo') = 0
       THEN Retorna(Advertencia, "76") /\ UNCHANGED data
       ELSE /\ data' = prompt_gemini \o texto_completo'
            /\ pc' = "post"
            /\ UNCHANGED <<result, exit>>
    /\ UNCHANGED <<pages, doc, page_num, textos_por_pagina, response_gemini,
                   response_json, e, exc, posts>>

\* line 90: requests.post(...) raises, or binds response_gemini
EnviaGemini ==
    /\ pc = "post"
    /\ posts' = posts + 1
    /\ \/ \E x \in TransportErrors :
             /\ exc' = x
             /\ pc' = ManejadorSolicitud(x)
             /\ UNCHANGED response_gemini
       \/ \E st \in HttpStatuses, raw \in RawBodies :
             /\ response_gemini' = [bound |-> TRUE, status_code |-> st, text |-> raw]
             /\ pc' = "status"
             /\ UNCHANGED exc
    /\ UNCHANGED <<pages, doc, page_num, textos_por_pagina, texto_completo, data,
                   response_json, e, exit, result>>

\* line 91: response_gemini.raise_for_status()
RaiseForStatus ==
    /\ pc = "status"
    /\ IF IsErrorStatus(response_gemini.status_code)
       THEN /\ exc' = HttpError(response_gemini.status_code)
            /\ pc' = ManejadorSolicitud(exc')
       ELSE /\ pc' = "json"
            /\ UNCHANGED exc
    /\ UNCHANGED <<pages, doc, page_num, textos_por_pagina, texto_completo, data,
                   response_gemini, response_json, e, posts, exit, result>>

\* line 92: response_json = response_gemini.json()
LeeJson ==
    /\ pc = "json"
    /\ IF IsJson(response_gemini.text)
       THEN /\ response_json' = Loads(response_gemini.text)
            /\ pc' = "shape"
            /\ UNCHANGED exc
       ELSE /\ exc' = JsonError
            /\ pc' = ManejadorSolicitud(JsonError)
            /\ UNCHANGED response_json
    /\ UNCHANGED <<pages, doc, page_num, textos_por_pagina, texto_completo, data,
                   response_gemini, e, posts, exit, result>>

\* Faulty variant of ExceptRequest: a transport error sends the request again.
ExceptRequest_reintenta ==
    /\ pc = "except_request"
    /\ e' = exc
    /\ IF ~response_gemini.bound
       THEN /\ exc' = NoExc
            /\ pc' = IF posts < 2 THEN "post" ELSE "except_general"
            /\ UNCHANGED <<result, exit>>
       ELSE IF IsJson(response_gemini.text)
       THEN /\ Retorna(ErrSolicitudDetalles(exc, Loads(response_gemini.text)), "97")
            /\ exc' = NoExc
       ELSE /\ Retorna(ErrSolicitudNoJson(exc, response_gemini), "99")
            /\ exc' = NoExc
    /\ UNCHANGED <<pages, doc, page_num, textos_por_pagina, texto_completo, data,
                   response_gemini, response_json, posts>>

\* lines 93-100: except requests.exceptions.RequestException as e.
\* Line 94 reads the local response_gemini: when line 90 raised, the name was
\* never bound and the read raises UnboundLocalError inside the handler.  A
\* bound response_gemini is a Response, never None, so line 100 is not reached.
ExceptRequest ==
    /\ pc = "except_request"
    /\ e' = exc
    /\ IF ~response_gemini.bound
       THEN /\ exc' = Exc("UnboundLocalError")
            /\ pc' = "except_general"
            /\ UNCHANGED <<result, exit>>
       ELSE IF IsJson(response_gemini.text)
       THEN /\ Retorna(ErrSolicitudDetalles(exc, Loads(response_gemini.text)), "97")
            /\ exc' = NoExc
       ELSE IF IsInstance(JsonError, "json.JSONDecodeError")
       THEN /\ Retorna(ErrSolicitudNoJson(exc, response_gemini), "99")
            /\ exc' = NoExc
       ELSE /\ exc' = JsonError
            /\ pc' = "except_general"
            /\ UNCHANGED <<result, exit>>
    /\ UNCHANGED <<pages, doc, page_num, textos_por_pagina, texto_completo, data,
                   response_gemini, response_json, posts>>

\* lines 103-115: unwrap candidates[0].content.parts[0].text
InterpretaRespuesta ==
    /\ pc = "shape"
    /\ LET r == ProcesaRespuesta(response_json)
       IN  IF r.ret
           THEN Retorna(r.val, "108-115") /\ UNCHANGED exc
           ELSE /\ exc' = Exc(r.exc)
                /\ pc' = "except_general"
                /\ UNCHANGED <<result, exit>>
    /\ UNCHANGED <<pages, doc, page_num, textos_por_pagina, texto_completo, data,
                   response_gemini, response_json, e, posts>>

\* Faulty variant of ExceptGeneral: except requests.exceptions.RequestException.
ExceptGeneral_solo_solicitud ==
    /\ pc = "except_general"
    /\ IF IsInstance(exc, "RequestException")
       THEN Retorna(ErrGeneral(exc), "118")
       ELSE pc' = "propagated" /\ UNCHANGED <<result, exit>>
    /\ UNCHANGED <<pages, doc, page_num, textos_por_pagina, texto_completo, data,
                   response_gemini, response_json, e, exc, posts>>

\* lines 117-118: except Exception as e
ExceptGeneral ==
    /\ pc = "except_general"
    /\ IF IsInstance(exc, "Exception")
       THEN Retorna(ErrGeneral(exc), "118")
       ELSE pc' = "propagated" /\ UNCHANGED <<result, exit>>
    /\ UNCHANGED <<pages, doc, page_num, textos_por_pagina, texto_completo, data,
                   response_gemini, response_json, e, exc, posts>>

Next ==
    \/ AbrePDF
    \/ ProcesaPagina
    \/ CierraDoc
    \/ AgregaTexto
    \/ EnviaGemini
    \/ RaiseForStatus
    \/ LeeJson
    \/ ExceptRequest
    \/ InterpretaRespuesta
    \/ ExceptGeneral

Spec == Init /\ [][Next]_vars

(***************************************************************************)
(* Properties                                                              *)
(***************************************************************************)

\* page outcome p puts a text into the sequence: the OCR call answered, with
\* no error message, with an annotation, with a non-empty text
Contribuye(p) == ~p.raises /\ ~p.err /\ p.annot /\ p.text # <<>>

NingunaContribuye == \A k \in 1..Len(pages) : ~Contribuye(pages[k])

\* the endpoint answered, with a 2xx status and a body that is JSON
Respuesta2xxJson ==
    /\ response_gemini.bound
    /\ response_gemini.status_code \in 200..299
    /\ IsJson(response_gemini.text)

\* j has a non-empty candidates list
TieneCandidates(j) ==
    /\ j.t = "obj"
    /\ "candidates" \in DOMAIN j.v
    /\ j.v["candidates"].t = "list"
    /\ Len(j.v["candidates"].v) > 0

PrimerCandidate(j) == j.v["candidates"].v[1]

\* the first candidate is an object with a content object
TieneContent(j) ==
    /\ TieneCandidates(j)
    /\ PrimerCandidate(j).t = "obj"
    /\ "content" \in DOMAIN PrimerCandidate(j).v
    /\ PrimerCandidate(j).v["content"].t = "obj"

PrimerContent(j) == PrimerCandidate(j).v["content"]

\* the content has no parts: the key is absent, or its list is empty
PartsAusentes(c) ==
    \/ "parts" \notin DOMAIN c.v
    \/ (c.v["parts"].t = "list" /\ Len(c.v["parts"].v) = 0)

\* candidates[0].content.parts[0] exists and has a text field
BienFormada(j) ==
    /\ TieneContent(j)
    /\ "parts" \in DOMAIN PrimerContent(j).v
    /\ PrimerContent(j).v["parts"].t = "list"
    /\ Len(PrimerContent(j).v["parts"].v) > 0
    /\ PrimerContent(j).v["parts"].v[1].t = "obj"
    /\ "text" \in DOMAIN PrimerContent(j).v["parts"].v[1].v

PrimerTexto(j) == PrimerContent(j).v["parts"].v[1].v["text"].v

\* C1: when the document opened and no page contributes a text, the call
\* returns the fixed warning and no POST was made; and whenever a POST has
\* been made the aggregated text is non-empty.
C1_SinTextoAdvierteSinPost ==
    /\ (doc # "none" /\ NingunaContribuye) => posts = 0
    /\ (pc = "done" /\ doc # "none" /\ NingunaContribuye) => result = Advertencia
    /\ posts > 0 => Len(texto_completo) > 0

C1_Testigo ==
    /\ pc = "done"
    /\ doc = "closed"
    /\ Len(pages) = 2
    /\ pages[1].raises
    /\ ~pages[2].raises /\ pages[2].annot /\ pages[2].text = <<>>
    /\ result = Advertencia

\* C2 (as claimed): when requests.post raised, so that response_gemini was
\* never assigned, the call returns 'Error en la solicitud a la API de
\* Gemini: <exception>' for the exception requests.post raised.
C2_ErrorDeTransporteSoloExcepcion ==
    (pc = "done" /\ posts > 0 /\ ~response_gemini.bound) => result = ErrSolicitud(e)

\* C3: a page whose OCR response has its error message set appends nothing,
\* the loop goes on to the next page with the run not ended, and no text of
\* that page is in the per-page sequence or in the aggregated text.
C3_ErrorOcrSaltaPagina ==
    /\ [][ (/\ pc = "pages"
            /\ page_num < Len(pages)
            /\ ~pages[page_num + 1].raises
            /\ pages[page_num + 1].err)
           => (/\ textos_por_pagina' = textos_por_pagina
               /\ page_num' = page_num + 1
               /\ pc' = "pages"
               /\ result' = result
               /\ exc' = exc) ]_vars
    /\ [](\A k \in 1..Len(pages) :
            (~pages[k].raises /\ pages[k].err) =>
                /\ \A i \in 1..Len(texto_completo) : texto_completo[i] # PageWord(k)
                /\ \A n \in 1..Len(textos_por_pagina) :
                      \A i \in 1..Len(textos_por_pagina[n]) :
                          textos_por_pagina[n][i] # PageWord(k))

C3_Testigo ==
    /\ pc = "post"
    /\ Len(pages) = 2
    /\ ~pages[1].raises /\ pages[1].err /\ pages[1].annot /\ pages[1].text # <<>>
    /\ Contribuye(pages[2])

\* the join of the texts of the contributing pages among the first k pages of
\* d, in page order, two newlines between consecutive texts
RECURSIVE Esperado(_, _)
Esperado(d, k) ==
    IF k = 0 THEN <<>>
    ELSE IF ~Contribuye(d[k]) THEN Esperado(d, k - 1)
    ELSE IF \E j \in 1..(k - 1) : Contribuye(d[j])
         THEN Esperado(d, k - 1) \o <<"\n\n">> \o d[k].text
         ELSE d[k].text

\* C4: the aggregated text, and the text sent to the LLM after the prompt, is
\* the join with a two-newline separator of exactly the texts of the
\* contributing pages, in ascending page order, with nothing for a skipped page.
C4_TextoAgregadoEsJoin ==
    /\ (doc = "closed" /\ pc # "join") =>
           texto_completo = Esperado(pages, Len(pages))
    /\ posts > 0 => data = prompt_gemini \o Esperado(pages, Len(pages))

C4_Testigo ==
    /\ pc = "status"
    /\ Len(pages) = 2
    /\ Contribuye(pages[1])
    /\ Contribuye(pages[2])
    /\ Len(pages[1].text) > 1

\* C5: for a 2xx response whose JSON body has candidates[0].content.parts[0]
\* with a text field, the call returns exactly that text.
C5_DevuelveTextoSinModificar ==
    (pc = "done" /\ Respuesta2xxJson /\ BienFormada(Loads(response_gemini.text)))
        => result = PrimerTexto(Loads(response_gemini.text))

C5_Testigo ==
    /\ pc = "done"
    /\ Respuesta2xxJson
    /\ BienFormada(Loads(response_gemini.text))
    /\ result = <<" ", "x", "\n">>

\* C6 (as claimed): for a 2xx response with a non-empty candidates list whose
\* first candidate has no parts, the content object being absent included,
\* the call returns the 'no parts' string.
C6_SinPartsOriginal ==
    (/\ pc = "done"
     /\ Respuesta2xxJson
     /\ TieneCandidates(Loads(response_gemini.text))
     /\ PrimerCandidate(Loads(response_gemini.text)).t = "obj"
     /\ \/ "content" \notin DOMAIN PrimerCandidate(Loads(response_gemini.text)).v
        \/ /\ TieneContent(Loads(response_gemini.text))
           /\ PartsAusentes(PrimerContent(Loads(response_gemini.text))))
        => result = SinParts

\* C6 (amended): for a 2xx response with a non-empty candidates list whose
\* first candidate has a content object in which parts is absent or an empty
\* list, the call returns the 'no parts' string; when the first candidate is
\* an object without a content key, it returns the debugging string with the
\* whole body instead.
C6_SinPartsConContent ==
    /\ (/\ pc = "done"
        /\ Respuesta2xxJson
        /\ TieneContent(Loads(response_gemini.text))
        /\ PartsAusentes(PrimerContent(Loads(response_gemini.text))))
           => result = SinParts
    /\ (/\ pc = "done"
        /\ Respuesta2xxJson
        /\ TieneCandidates(Loads(response_gemini.text))
        /\ PrimerCandidate(Loads(response_gemini.text)).t = "obj"
        /\ "content" \notin DOMAIN PrimerCandidate(Loads(response_gemini.text)).v)
           => result = RespuestaCompleta(Loads(response_gemini.text))

C6_Testigo ==
    /\ pc = "done"
    /\ Respuesta2xxJson
    /\ TieneContent(Loads(response_gemini.text))
    /\ "parts" \in DOMAIN PrimerContent(Loads(response_gemini.text)).v
    /\ PartsAusentes(PrimerContent(Loads(response_gemini.text)))
    /\ result = SinParts

\* the result names the exception of raise_for_status and, for a JSON body,
\* the parsed body; for any other body, the status code and the raw text
ResultadoDeErrorHttp ==
    /\ Contains(result, HttpError(response_gemini.status_code).msg)
    /\ IF IsJson(response_gemini.text)
       THEN Contains(result, Render(Loads(response_gemini.text), TRUE))
       ELSE /\ Contains(result, <<ToString(response_gemini.status_code)>>)
            /\ Contains(result, response_gemini.text)

\* C7 (as claimed): for every non-2xx status the result contains the message
\* of the exception of raise_for_status and the parsed body, or, for a body
\* that is no JSON, the message, the status code and the raw text.
C7_ErrorHttpOriginal ==
    (/\ pc = "done"
     /\ response_gemini.bound
     /\ response_gemini.status_code \notin 200..299)
        => ResultadoDeErrorHttp

\* C7 (amended): the same for every 4xx or 5xx status, the statuses for which
\* raise_for_status raises.
C7_ErrorHttp4xx5xx ==
    (/\ pc = "done"
     /\ response_gemini.bound
     /\ response_gemini.status_code \in 400..599)
        => ResultadoDeErrorHttp

C7_Testigo ==
    /\ pc = "done"
    /\ response_gemini.bound
    /\ response_gemini.status_code = 404
    /\ response_gemini.text = Render(JsonBodies[4], FALSE)
    /\ exit = "97"

\* C8: no run ends with a successfully opened document still open.
C8_DocumentoCerradoAlTerminar ==
    (pc \in {"done", "propagated"} /\ doc # "none") => doc = "closed"

C8_Testigo ==
    /\ pc = "done"
    /\ doc = "closed"
    /\ \E k \in 1..Len(pages) : pages[k].raises
    /\ \E k \in 1..Len(pages) : ~pages[k].raises /\ pages[k].err

\* C9: at most one POST in any run, and exactly one in every finished run
\* whose document opened and whose aggregated text was non-empty, whatever
\* the outcome of the POST.
C9_UnSoloPost ==
    /\ posts <= 1
    /\ (pc = "done" /\ doc # "none" /\ ~NingunaContribuye) => posts = 1
    /\ pc \in {"status", "json", "shape", "except_request", "except_general"}
          => posts = 1

C9_Testigo ==
    /\ pc = "done"
    /\ posts = 1
    /\ ~response_gemini.bound
    /\ exit = "118"

\* C10: no exception leaves the function; a finished run has returned one
\* string from one return statement; an exception that left the inner
\* handlers is returned as 'Error general al procesar el PDF: ' and its text.
C10_NingunaExcepcionSale ==
    /\ pc # "propagated"
    /\ pc = "done" =>
          /\ exit # "none"
          /\ \A i \in 1..Len(result) : result[i] \in STRING
    /\ pc = "except_general" => IsInstance(exc, "Exception")
    /\ (pc = "done" /\ exc # NoExc) =>
          /\ exit = "118"
          /\ result = <<"Error general al procesar el PDF: ">> \o exc.msg

C10_Testigo ==
    /\ pc = "done"
    /\ exc.cls = "UnboundLocalError"
    /\ e.cls = "ConnectionError"
    /\ exit = "118"

=============================================================================
